---- MODULE Spec2Model ----
(***************************************************************************)
(* Model of the Neviweb thermostat monitor: the poll loop of monitor.py,   *)
(* its reconnect helper, the Device Client session state of                *)
(* neviweb_client.py, the Trigger Manager of trigger_manager.py and the    *)
(* Action Executor / Condition Checker of action_executor.py.              *)
(***************************************************************************)
EXTENDS Integers, Sequences, FiniteSets

\* ------------------------------------------------------------------------
\* Bounds of the model
\* ------------------------------------------------------------------------
\* number of successful samples remembered in the history window
MaxHist == 3
\* number of threads a parallel block may start (children per group)
MaxChildren == 2

\* ------------------------------------------------------------------------
\* Program constants
\* ------------------------------------------------------------------------
\* Python's None, for last_percent, percent, session_id and device lookups
None == 1000
\* reconnect(client, max_attempts=6, base_delay=5)
max_attempts == 6
base_delay == 5
\* auth["deviceId"]
deviceId == 1

RECURSIVE Pow2(_)
Pow2(n) == IF n = 0 THEN 1 ELSE 2 * Pow2(n - 1)

\* a backoff that grows linearly instead of doubling
BackoffDelay_Linear(attempt) == base_delay * attempt

\* delay = base_delay * (2 ** (attempt - 1))
BackoffDelay(attempt) == base_delay * Pow2(attempt - 1)

\* ------------------------------------------------------------------------
\* Device Client data
\* ------------------------------------------------------------------------
Dev(i, n) == [id |-> i, name |-> n]
NoDevice == [id |-> None, name |-> "none"]

\* device lists the API may return (non-empty lists)
DeviceLists ==
    { <<Dev(1, "a")>>, <<Dev(2, "a"), Dev(1, "b")>>, <<Dev(2, "a")>> }

\* next((d for d in client.devices if str(d.get("id")) == str(deviceId)), None)
RECURSIVE ResolveDevice(_)
ResolveDevice(devs) ==
    IF devs = <<>> THEN NoDevice
    ELSE IF Head(devs).id = deviceId THEN Head(devs)
    ELSE ResolveDevice(Tail(devs))

\* outcomes of the login request: session established or not
LoginOutcomes == {"ok", "fail"}
\* outcomes of the device-list request: "fail" is a transport or API error,
\* "empty" a payload that is not a list or an empty list, "list" a device list
DevOut(r, l) == [res |-> r, list |-> l]
DevicesOutcomes ==
    {DevOut("fail", <<>>), DevOut("empty", <<>>)}
    \cup {DevOut("list", l) : l \in DeviceLists}

\* responses of get_device_attributes as seen by the monitor loop:
\*   kind "none"     -> None (transport failure)
\*   kind "error"    -> {"error": {...}} with error.code = code
\*   kind "baderr"  -> {"error": <not a mapping>}
\*   kind "ok"       -> attribute map; opd is outputPercentDisplay.percent,
\*                      "absent" when the field is missing
ErrorCodes == {"USRSESSEXP", "SESSION_EXPIRED", "SESSIONINVALID",
               "ACCSESSEXC", "OTHER", "nocode"}
PercentValues == {0, 45, None}
Resp(k, c, p, a) == [kind |-> k, code |-> c, percent |-> p, absent |-> a]
Responses ==
    {Resp("none", "-", 0, FALSE), Resp("baderr", "-", 0, FALSE),
     Resp("ok", "-", 0, TRUE)}
    \cup {Resp("error", c, 0, FALSE) : c \in ErrorCodes}
    \cup {Resp("ok", "-", p, FALSE) : p \in PercentValues}

\* percent = info.get("outputPercentDisplay", {}).get("percent", 0)
ExtractPercent(info) == IF info.absent THEN 0 ELSE info.percent

\* which reconnect branch of the loop an error code selects
ClassifyError(code) ==
    IF code \in {"USRSESSEXP", "SESSION_EXPIRED", "SESSIONINVALID"}
    THEN "session"
    ELSE IF code = "ACCSESSEXC" THEN "accsessexc"
    ELSE "unknown"

\* branches of the loop that re-select the device after a good reconnect
ResolvingBranches == {"noresp", "session"}

\* a comparison that looks at the level of percent instead of its change
TransitionDecision_Level(last, percent) ==
    IF last = None THEN "none"
    ELSE IF percent = None THEN "raise"
    ELSE IF percent > 0 THEN "on_heater_on"
    ELSE "on_heater_off"

\* the trigger comparison of the loop; "raise" is a TypeError from comparing
\* None with an integer
TransitionDecision(last, percent) ==
    IF last = None THEN "none"
    ELSE IF last = 0
         THEN IF percent = None THEN "raise"
              ELSE IF percent > 0 THEN "on_heater_on" ELSE "none"
    ELSE IF last > 0 /\ percent = 0 THEN "on_heater_off"
    ELSE "none"

\* ------------------------------------------------------------------------
\* Trigger configuration data (config["triggers"])
\* ------------------------------------------------------------------------
\* An item of a trigger list.  mapping = FALSE is a list item that is not a
\* JSON object.  condition is "absent", "ping", "unknown" (a mapping with
\* another type) or "notmap" (a non-empty value that is not a mapping).
Act(kind, en, cond, rep, kids) ==
    [mapping |-> TRUE, action_type |-> kind, enabled |-> en,
     condition |-> cond, repeat |-> rep, actions |-> kids]
KB(en, cond, rep) == Act("keyboard", en, cond, rep, <<>>)
CMD(en, cond, rep) == Act("command", en, cond, rep, <<>>)
SLP(en, cond) == Act("sleep", en, cond, 1, <<>>)
PAR(en, kids) == Act("parallel", en, "absent", 1, kids)
UNK == Act("bogus", TRUE, "absent", 1, <<>>)
NOTMAP ==
    [mapping |-> FALSE, action_type |-> "-", enabled |-> TRUE,
     condition |-> "absent", repeat |-> 1, actions |-> <<>>]

Trig(list) == [present |-> TRUE, actions |-> list]
NoTrig == [present |-> FALSE, actions |-> <<>>]

\* the trigger mappings the model is run with
TriggerConfigs ==
    { [on_heater_on  |-> Trig(<<KB(TRUE, "absent", 2),
                                PAR(TRUE, <<CMD(TRUE, "absent", 1),
                                            SLP(TRUE, "absent")>>),
                                KB(TRUE, "absent", 1)>>),
       on_heater_off |-> Trig(<<CMD(TRUE, "absent", 2)>>)],
      [on_heater_on  |-> Trig(<<KB(FALSE, "absent", 1),
                                PAR(FALSE, <<KB(TRUE, "absent", 1)>>),
                                CMD(TRUE, "absent", 1)>>),
       on_heater_off |-> Trig(<<SLP(FALSE, "absent"),
                                CMD(FALSE, "ping", 1)>>)],
      [on_heater_on  |-> Trig(<<KB(TRUE, "ping", 1),
                                CMD(TRUE, "unknown", 1),
                                SLP(TRUE, "ping")>>),
       on_heater_off |-> NoTrig],
      [on_heater_on  |-> Trig(<<NOTMAP, KB(TRUE, "absent", 1)>>),
       on_heater_off |-> Trig(<<KB(TRUE, "notmap", 1),
                                CMD(TRUE, "absent", 1)>>)],
      [on_heater_on  |-> Trig(<<UNK,
                                PAR(TRUE, <<NOTMAP, CMD(TRUE, "ping", 1)>>),
                                KB(TRUE, "absent", 1)>>),
       on_heater_off |-> Trig(<<>>)],
      [on_heater_on  |-> Trig(<<KB(TRUE, "unknown", 3)>>),
       on_heater_off |-> Trig(<<CMD(TRUE, "ping", 3)>>)] }

\* the trigger mappings the whole monitor is run with
MonitorConfigs ==
    { [on_heater_on  |-> Trig(<<KB(TRUE, "absent", 1),
                                PAR(TRUE, <<CMD(TRUE, "absent", 1),
                                            SLP(TRUE, "absent")>>)>>),
       on_heater_off |-> NoTrig],
      [on_heater_on  |-> Trig(<<NOTMAP>>),
       on_heater_off |-> Trig(<<CMD(TRUE, "ping", 1)>>)] }

Modes == {"once", "monitor", "trigger"}

\* ------------------------------------------------------------------------
\* State
\* ------------------------------------------------------------------------
VARIABLES
    mode,         \* args.mode
    triggers,     \* TriggerManager.triggers
    pc,           \* position of main(): init_login, init_devices, fetch,
                  \* reconnect, trigger, sleep, exit, terminated
    cause,        \* why main() left: none, init_login, init_devices,
                  \* init_nodevice, once, interrupt, fault
    started,      \* the monitor loop has been entered
    session_id,   \* NeviwebClient.session_id
    orphaned,     \* a session established by login() was overwritten by a
                  \* later login() and no logout was ever sent for it
    logouts,      \* logout requests sent for the session that login()
                  \* established last
    devices,      \* NeviwebClient.devices
    thermostat,   \* Thermostat.device_info of the tracked thermostat
    last_percent, \* last_percent of main()
    branch,       \* branch of the loop that called reconnect()
    attempt,      \* attempt of reconnect()
    delays,       \* delays slept by the current reconnect() call
    cyc,          \* what happened in the current poll cycle
    hist,         \* the last MaxHist successful samples in trigger mode
    outage,       \* a failed sample happened since the last successful one
    tm,           \* position of the Trigger Manager
    th,           \* threads running ActionExecutor.execute (0 = caller)
    trace         \* calls made by the current trigger execution

vars == <<mode, triggers, pc, cause, started, session_id, orphaned, logouts,
          devices,
          thermostat, last_percent, branch, attempt, delays, cyc, hist,
          outage, tm, th, trace>>

sessVars == <<session_id, orphaned, logouts>>
clientVars == <<session_id, orphaned, logouts, devices>>
reconnVars == <<branch, attempt, delays>>
trigVars == <<tm, th, trace>>
confVars == <<mode, triggers>>

Threads == 0..MaxChildren
IdleThread == [pc |-> "idle", act |-> NOTMAP, idx |-> 0, ch |-> 0, i |-> 0]
IdleTM == [pc |-> "idle", name |-> "none", idx |-> 0, k |-> 0]
NoCycle ==
    [kind |-> "start", code |-> "-", percent |-> 0, prevLast |-> None,
     fired |-> "none", raised |-> FALSE, reconnect |-> "no",
     resolved |-> FALSE, outage |-> FALSE]

\* trigger_manager is None outside trigger mode
NoTriggers == [on_heater_on |-> NoTrig, on_heater_off |-> NoTrig]

Init ==
    /\ mode \in Modes
    /\ triggers \in IF mode = "trigger" THEN MonitorConfigs ELSE {NoTriggers}
    /\ pc = "init_login"
    /\ cause = "none"
    /\ started = FALSE
    /\ session_id = None
    /\ orphaned = FALSE
    /\ logouts = 0
    /\ devices = <<>>
    /\ thermostat = NoDevice
    /\ last_percent = None
    /\ branch = "none"
    /\ attempt = 0
    /\ delays = <<>>
    /\ cyc = NoCycle
    /\ hist = <<>>
    /\ outage = FALSE
    /\ tm = IdleTM
    /\ th = [t \in Threads |-> IdleThread]
    /\ trace = <<>>

\* ------------------------------------------------------------------------
\* Device Client (neviweb_client.py)
\* ------------------------------------------------------------------------
\* NeviwebClient.login: the session id after the call, and the result
LoginSession(sid, o) == IF o = "ok" THEN 1 ELSE sid
LoginResult(o) == o = "ok"

\* NeviwebClient.get_devices: the device list after the call, and the result
GetDevicesList(devs, o) ==
    IF o.res = "fail" THEN devs ELSE IF o.res = "empty" THEN <<>> ELSE o.list
GetDevicesResult(o) == o.res = "list"

\* NeviwebClient.login overwrites session_id: a session the client still
\* held is never logged out
LoginOrphaned(sid, o, orph) == orph \/ (o = "ok" /\ sid # None)

\* NeviwebClient.disconnect: the session id after the call
Disconnect(sid) == None

\* NeviwebClient.disconnect posts the logout only when session_id is set
DisconnectLogouts(sid, n) == IF sid = None THEN n ELSE n + 1

\* client.login() as a step of the program
DoLogin(o) ==
    /\ session_id' = LoginSession(session_id, o)
    /\ orphaned' = LoginOrphaned(session_id, o, orphaned)
    /\ logouts' = IF LoginResult(o) THEN 0 ELSE logouts

\* client.disconnect() as a step of the program
DoDisconnect ==
    /\ session_id' = Disconnect(session_id)
    /\ logouts' = DisconnectLogouts(session_id, logouts)
    /\ orphaned' = orphaned

\* ------------------------------------------------------------------------
\* Monitor loop (monitor.py main)
\* ------------------------------------------------------------------------
TriggerNames == {"on_heater_on", "on_heater_off"}

\* the history window keeps the last MaxHist entries
Window(h, e) == IF Len(h) < MaxHist THEN Append(h, e) ELSE Append(Tail(h), e)

HistEntry(c) ==
    [prevLast |-> c.prevLast, percent |-> c.percent, fired |-> c.fired]

\* an execute_trigger that indexes the mapping without testing the name
ExecuteTriggerEntry_KeyError(conf, name) ==
    IF ~conf[name].present THEN "raise"
    ELSE IF conf[name].actions = <<>> THEN "skip"
    ELSE "run"

\* TriggerManager.execute_trigger returns at once when the name is not in the
\* mapping, and _execute_action_list when the list is empty
ExecuteTriggerEntry(conf, name) ==
    IF ~conf[name].present THEN "skip"
    ELSE IF conf[name].actions = <<>> THEN "skip"
    ELSE "run"

TriggerRuns(conf, name) == ExecuteTriggerEntry(conf, name) = "run"

\* the end of the trigger block of a successful sample: last_percent is
\* assigned unless an exception was raised before the assignment
CompleteSample(c, raisedFlag) ==
    /\ last_percent' = IF raisedFlag THEN last_percent ELSE c.percent
    /\ hist' = Window(hist, HistEntry(c))
    /\ outage' = FALSE
    /\ cyc' = [c EXCEPT !.raised = raisedFlag]
    /\ pc' = "sleep"

\* Initial connect: client.login()
InitialLogin ==
    /\ pc = "init_login"
    /\ \E o \in LoginOutcomes :
        /\ DoLogin(o)
        /\ IF LoginResult(o)
           THEN pc' = "init_devices" /\ cause' = cause
           ELSE pc' = "exit" /\ cause' = "init_login"
    /\ UNCHANGED <<confVars, started, devices, thermostat, last_percent,
                   reconnVars, cyc, hist, outage, trigVars>>

\* Initial connect: client.get_devices(), the device lookup, and the
\* one-shot mode
InitialDevices ==
    /\ pc = "init_devices"
    /\ \E o \in DevicesOutcomes :
        /\ devices' = GetDevicesList(devices, o)
        /\ IF ~GetDevicesResult(o)
           THEN /\ pc' = "exit" /\ cause' = "init_devices"
                /\ UNCHANGED <<thermostat, started, sessVars>>
           ELSE IF ResolveDevice(devices') = NoDevice
           THEN /\ pc' = "exit" /\ cause' = "init_nodevice"
                /\ UNCHANGED <<thermostat, started, sessVars>>
           ELSE /\ thermostat' = ResolveDevice(devices')
                /\ IF mode = "once"
                   THEN /\ pc' = "exit" /\ cause' = "once"
                        /\ DoDisconnect
                        /\ started' = started
                   ELSE /\ pc' = "fetch" /\ cause' = cause
                        /\ started' = TRUE
                        /\ UNCHANGED sessVars
    /\ UNCHANGED <<confVars, last_percent, reconnVars, cyc, hist, outage,
                   trigVars>>

\* the record of a poll cycle that has just fetched info
NewCycle(info) ==
    [NoCycle EXCEPT !.kind = info.kind, !.code = info.code,
                    !.prevLast = last_percent, !.outage = outage]

\* a loop whose branch for unclassified API errors sleeps and polls again
\* without reconnecting
FailedSample_UnknownSkipsReconnect(info, br) ==
    /\ branch' = br
    /\ attempt' = 0
    /\ delays' = <<>>
    /\ outage' = TRUE
    /\ IF br = "unknown"
       THEN /\ cyc' = NewCycle(info)
            /\ UNCHANGED sessVars
            /\ pc' = "sleep"
       ELSE /\ cyc' = [NewCycle(info) EXCEPT !.reconnect = "entered"]
            /\ DoDisconnect
            /\ pc' = "reconnect"
    /\ UNCHANGED <<cause, last_percent, hist, tm, th>>

\* a failed sample: the loop calls reconnect(), which first disconnects
FailedSample(info, br) ==
    /\ cyc' = [NewCycle(info) EXCEPT !.reconnect = "entered"]
    /\ branch' = br
    /\ attempt' = 0
    /\ delays' = <<>>
    /\ DoDisconnect
    /\ outage' = TRUE
    /\ pc' = "reconnect"
    /\ UNCHANGED <<cause, last_percent, hist, tm, th>>

\* a successful sample: extract percent and run the trigger logic
GoodSample(info) ==
    LET percent == ExtractPercent(info)
        d == IF mode = "trigger"
             THEN TransitionDecision(last_percent, percent) ELSE "none"
        c == [NewCycle(info) EXCEPT
                 !.percent = percent,
                 !.fired = IF d \in TriggerNames THEN d ELSE "none"]
    IN  /\ UNCHANGED <<cause, reconnVars, sessVars>>
        /\ IF mode # "trigger"
           THEN /\ cyc' = c /\ pc' = "sleep"
                /\ UNCHANGED <<last_percent, hist, outage, tm, th>>
           ELSE IF d \in TriggerNames /\ TriggerRuns(triggers, d)
           THEN /\ cyc' = c /\ pc' = "trigger"
                /\ tm' = [pc |-> "list", name |-> d, idx |-> 1, k |-> 0]
                /\ UNCHANGED <<last_percent, hist, outage, th>>
           ELSE /\ CompleteSample(c,
                    \/ d = "raise"
                    \/ d \in TriggerNames
                       /\ ExecuteTriggerEntry(triggers, d) = "raise")
                /\ UNCHANGED <<tm, th>>

\* One pass of the loop body up to its first blocking call:
\* info = thermostat.get_all_info() and the classification of info
Fetch ==
    /\ pc = "fetch"
    /\ \E info \in Responses :
        CASE info.kind = "none" -> FailedSample(info, "noresp")
          [] info.kind = "error" ->
                FailedSample(info, ClassifyError(info.code))
          [] info.kind = "baderr" ->
                \* info["error"].get raises; only the finally clause runs
                /\ cyc' = NewCycle(info)
                /\ pc' = "exit" /\ cause' = "fault"
                /\ DoDisconnect
                /\ UNCHANGED <<reconnVars, last_percent, hist, outage,
                               tm, th>>
          [] info.kind = "ok" -> GoodSample(info)
    /\ UNCHANGED <<confVars, started, devices, thermostat, trace>>

\* a loop whose "Device ID not found after reconnect" branch continues
\* without sleeping
BranchEnd_NotFoundSkipsSleep(br, ok, found) ==
    IF ok /\ br \in ResolvingBranches /\ ~found THEN "fetch" ELSE "sleep"

\* where a reconnect branch of the loop goes once reconnect() has returned
\* ok: every path through every branch ends in time.sleep(interval);
\* continue
BranchEnd(br, ok, found) == "sleep"

\* One iteration of the while loop of reconnect(), and, once reconnect()
\* returns, the rest of the calling branch up to time.sleep(interval)
ReconnectAttempt ==
    /\ pc = "reconnect"
    /\ attempt < max_attempts
    /\ attempt' = attempt + 1
    /\ \E lo \in LoginOutcomes, do \in DevicesOutcomes :
        LET ok == LoginResult(lo) /\ GetDevicesResult(do)
            devs == IF LoginResult(lo) THEN GetDevicesList(devices, do)
                    ELSE devices
            found == ResolveDevice(devs)
        IN  /\ DoLogin(lo)
            /\ devices' = devs
            /\ IF ok
               THEN /\ delays' = delays
                    /\ pc' = BranchEnd(branch, TRUE, found # NoDevice)
                    /\ IF branch \in ResolvingBranches /\ found # NoDevice
                       THEN /\ thermostat' = found
                            /\ cyc' = [cyc EXCEPT !.reconnect = "ok",
                                                  !.resolved = TRUE]
                       ELSE /\ thermostat' = thermostat
                            /\ cyc' = [cyc EXCEPT !.reconnect = "ok"]
               ELSE /\ delays' = Append(delays, BackoffDelay(attempt'))
                    /\ thermostat' = thermostat
                    /\ IF attempt' < max_attempts
                       THEN pc' = "reconnect" /\ cyc' = cyc
                       ELSE /\ pc' = BranchEnd(branch, FALSE, FALSE)
                            /\ cyc' = [cyc EXCEPT !.reconnect = "failed"]
    /\ UNCHANGED <<confVars, cause, started, last_percent, branch, hist,
                   outage, trigVars>>

\* time.sleep(interval) at the end of every branch of the loop body; the
\* records of the finished cycle are dropped
Sleep ==
    /\ pc = "sleep"
    /\ pc' = "fetch"
    /\ cyc' = NoCycle
    /\ branch' = "none"
    /\ attempt' = 0
    /\ delays' = <<>>
    /\ tm' = IdleTM
    /\ th' = [t \in Threads |-> IdleThread]
    /\ trace' = <<>>
    /\ UNCHANGED <<confVars, cause, started, clientVars, thermostat,
                   last_percent, hist, outage>>

\* main() is left: its per-cycle locals and records are dropped; the
\* threads of a trigger that was running stay
LeaveMain ==
    /\ cyc' = NoCycle
    /\ hist' = <<>>
    /\ outage' = FALSE
    /\ branch' = "none"
    /\ attempt' = 0
    /\ delays' = <<>>
    /\ IF pc = "trigger"
       THEN /\ tm' = [tm EXCEPT !.pc = "aborted"]
            /\ th' = [th EXCEPT ![0] = IdleThread]
            /\ trace' = trace
       ELSE /\ tm' = IdleTM
            /\ th' = [t \in Threads |-> IdleThread]
            /\ trace' = <<>>

\* KeyboardInterrupt: inside the loop the finally clause disconnects
Interrupt ==
    /\ pc \in {"init_login", "init_devices", "fetch", "reconnect",
               "trigger", "sleep"}
    /\ pc' = "exit"
    /\ cause' = "interrupt"
    /\ IF started THEN DoDisconnect ELSE UNCHANGED sessVars
    /\ LeaveMain
    /\ UNCHANGED <<confVars, started, devices, thermostat, last_percent>>

\* a join that only returns for a thread whose target returned normally
Running_UntilReturn(t) == th[t].pc \notin {"idle", "done"}

\* threads that have not finished their execute() call
Running(t) == th[t].pc \notin {"idle", "done", "raised"}

\* Process exit: the interpreter waits for the threads, then runs the
\* atexit hook NeviwebClient.safe_cleanup
AtExit ==
    /\ pc = "exit"
    /\ \A t \in Threads : ~Running(t)
    /\ pc' = "terminated"
    /\ DoDisconnect
    /\ UNCHANGED <<confVars, cause, started, devices, thermostat,
                   last_percent, reconnVars, cyc, hist, outage, trigVars>>

\* ------------------------------------------------------------------------
\* Condition Checker and Action Executor (action_executor.py)
\* ------------------------------------------------------------------------
\* an entry of the trace: a call made on behalf of item idx of the trigger
\* list (ch = 0) or of child ch of the parallel block at idx
Ev(e, t, r) == [ev |-> e, idx |-> th[t].idx, ch |-> th[t].ch, res |-> r]

\* results the reachability probe can give for a condition
ProbeOutcomes(a) ==
    IF a.mapping /\ a.enabled /\ a.condition = "ping"
    THEN {"ok", "fail", "raise"} ELSE {"-"}

\* a check whose except clause lets the action run (fail open on error)
ConditionCheck_FailOpen(cond, probe) ==
    IF cond = "absent" THEN "true"
    ELSE IF cond = "notmap" THEN "raise"
    ELSE IF cond = "ping"
         THEN IF probe = "fail" THEN "false" ELSE "true"
    ELSE "true"

\* ConditionChecker.check: "true", "false", or "raise" when the exception
\* leaves check (condition.get is outside the try block)
ConditionCheck(cond, probe) ==
    IF cond = "absent" THEN "true"
    ELSE IF cond = "notmap" THEN "raise"
    ELSE IF cond = "ping"
         THEN IF probe = "ok" THEN "true" ELSE "false"
    ELSE "true"

\* the dispatch of ActionExecutor.execute on action_type
Dispatch(a) ==
    IF a.action_type \in {"keyboard", "command"}
    THEN IF a.repeat > 0 THEN "loop" ELSE "done"
    ELSE IF a.action_type = "sleep" THEN "sleeping"
    ELSE "done"

\* an execute() that skips an action whose condition is of an unknown type
ExecutePrelude_UnknownSkips(a, probe) ==
    IF ~a.mapping THEN "raised"
    ELSE IF ~a.enabled THEN "done"
    ELSE IF a.condition = "unknown" THEN "done"
    ELSE IF a.condition # "absent"
            /\ ConditionCheck(a.condition, probe) = "raise"
         THEN "raised"
    ELSE IF a.condition # "absent"
            /\ ConditionCheck(a.condition, probe) = "false"
         THEN "done"
    ELSE Dispatch(a)

\* ActionExecutor.execute up to the dispatch: where the call goes next
ExecutePrelude(a, probe) ==
    IF ~a.mapping THEN "raised"
    ELSE IF ~a.enabled THEN "done"
    ELSE IF a.condition # "absent"
            /\ ConditionCheck(a.condition, probe) = "raise"
         THEN "raised"
    ELSE IF a.condition # "absent"
            /\ ConditionCheck(a.condition, probe) = "false"
         THEN "done"
    ELSE Dispatch(a)

\* the collaborator a repeat loop calls
Collaborator(a) == IF a.action_type = "keyboard" THEN "press" ELSE "run"

\* the end of an execute() call of thread t, with the calls evs it made
\* last.  In the caller's thread (t = 0) a return moves the Trigger Manager
\* to the next item, and an exception unwinds execute_trigger up to the
\* except clause of the loop
EndExecute(t, how, evs) ==
    /\ th' = [th EXCEPT ![t].pc = how]
    /\ trace' = trace \o evs
                \o <<Ev(IF how = "raised" THEN "raise" ELSE "end", t, "-")>>
    /\ IF t # 0
       THEN UNCHANGED <<tm, pc, cyc, last_percent, hist, outage>>
       ELSE IF how = "done"
       THEN /\ tm' = [tm EXCEPT !.pc = "list", !.idx = @ + 1]
            /\ UNCHANGED <<pc, cyc, last_percent, hist, outage>>
       ELSE /\ tm' = [tm EXCEPT !.pc = "raised"]
            /\ CompleteSample(cyc, TRUE)

ContinueExecute(t, next, i, evs) ==
    /\ th' = [th EXCEPT ![t].pc = next, ![t].i = i]
    /\ trace' = trace \o evs
    /\ UNCHANGED <<tm, pc, cyc, last_percent, hist, outage>>

\* thread t may take a step: the caller's thread only while the trigger
\* runs, a child thread whenever it has been started
MayRun(t) == IF t = 0 THEN pc = "trigger" /\ tm.pc = "exec" ELSE TRUE

\* execute(): the enabled test, the condition and the dispatch
ExecBegin(t) ==
    /\ MayRun(t)
    /\ th[t].pc = "begin"
    /\ \E probe \in ProbeOutcomes(th[t].act) :
        LET a == th[t].act
            next == ExecutePrelude(a, probe)
            pev == IF probe = "-" THEN <<>> ELSE <<Ev("probe", t, probe)>>
        IN  IF next \in {"done", "raised"}
            THEN EndExecute(t, next, pev)
            ELSE ContinueExecute(t, next, 0,
                     pev \o IF next = "sleeping"
                            THEN <<Ev("sleep", t, "-")>> ELSE <<>>)
    /\ UNCHANGED <<confVars, cause, started, clientVars, thermostat,
                   reconnVars>>

\* an execute() whose dispatch is not inside a try block
CallOutcome_Propagates(r) == IF r = "raise" THEN "raised" ELSE "ok"

\* what a collaborator call that gave r does to the execute() call: an
\* exception is caught and logged by the except clause of execute(), which
\* then returns
CallOutcome(r) == IF r = "raise" THEN "done" ELSE "ok"

\* a repeat loop that sleeps after every call
DelayAfter_Every(i, n) == TRUE

\* if i < repeat - 1: time.sleep(REPEAT_DELAY_IN_SECONDS)
DelayAfter(i, n) == i < n - 1

\* one iteration of the repeat loop of _execute_keyboard / _execute_command
ExecIter(t) ==
    /\ MayRun(t)
    /\ th[t].pc = "loop"
    /\ \E r \in {"ok", "raise"} :
        LET a == th[t].act
            call == <<Ev(Collaborator(a), t, r)>>
        IN  IF CallOutcome(r) # "ok"
            THEN EndExecute(t, CallOutcome(r), call)
            ELSE LET evs == call \o IF DelayAfter(th[t].i, a.repeat)
                                    THEN <<Ev("delay", t, "-")>> ELSE <<>>
                 IN  IF th[t].i + 1 < a.repeat
                     THEN ContinueExecute(t, "loop", th[t].i + 1, evs)
                     ELSE EndExecute(t, "done", evs)
    /\ UNCHANGED <<confVars, cause, started, clientVars, thermostat,
                   reconnVars>>

\* time.sleep(seconds) of _execute_sleep returns
ExecWake(t) ==
    /\ MayRun(t)
    /\ th[t].pc = "sleeping"
    /\ EndExecute(t, "done", <<Ev("wake", t, "-")>>)
    /\ UNCHANGED <<confVars, cause, started, clientVars, thermostat,
                   reconnVars>>

\* ------------------------------------------------------------------------
\* Trigger Manager (trigger_manager.py)
\* ------------------------------------------------------------------------
CurrentList == triggers[tm.name].actions

\* isinstance(item, dict) and item.get("action_type") == "parallel"
IsParallelItem(item) == item.mapping /\ item.action_type = "parallel"

StartThread(t, a, idx, ch) ==
    [pc |-> "begin", act |-> a, idx |-> idx, ch |-> ch, i |-> 0]

BeginEv(idx, ch) == [ev |-> "begin", idx |-> idx, ch |-> ch, res |-> "-"]

\* _execute_action_list: take the next item of the list
TMNextItem ==
    /\ pc = "trigger"
    /\ tm.pc = "list"
    /\ tm.idx <= Len(CurrentList)
    /\ LET item == CurrentList[tm.idx]
       IN  IF IsParallelItem(item)
           THEN /\ trace' = trace
                /\ th' = th
                /\ IF item.actions = <<>>
                   THEN tm' = [tm EXCEPT !.idx = @ + 1]
                   ELSE tm' = [tm EXCEPT !.pc = "spawn", !.k = 1]
           ELSE /\ th' = [th EXCEPT ![0] = StartThread(0, item, tm.idx, 0)]
                /\ trace' = Append(trace, BeginEv(tm.idx, 0))
                /\ tm' = [tm EXCEPT !.pc = "exec"]
    /\ UNCHANGED <<confVars, pc, cause, started, clientVars, thermostat,
                   last_percent, reconnVars, cyc, hist, outage>>

\* _execute_action_list has run the whole list: execute_trigger returns and
\* the loop assigns last_percent
TMReturn ==
    /\ pc = "trigger"
    /\ tm.pc = "list"
    /\ tm.idx > Len(CurrentList)
    /\ tm' = [tm EXCEPT !.pc = "returned"]
    /\ CompleteSample(cyc, FALSE)
    /\ UNCHANGED <<confVars, cause, started, clientVars, thermostat,
                   reconnVars, th, trace>>

\* a join loop that waits for the first thread only
JoinTarget_First(k) == 1

\* the thread a parallel block waits for at position k of its join loop
JoinTarget(k) == k

\* a block that joins each thread right after starting it
SpawnReady_AfterSibling(k) == k = 1 \/ th[k - 1].pc \in {"done", "raised"}

\* what thread.start() of child k waits for: the start loop contains no
\* join, so nothing
SpawnReady(k) == TRUE

\* _execute_parallel_block: create and start the thread of child k
TMSpawn ==
    /\ pc = "trigger"
    /\ tm.pc = "spawn"
    /\ SpawnReady(tm.k)
    /\ LET kids == CurrentList[tm.idx].actions
       IN  /\ th' = [th EXCEPT ![tm.k] =
                         StartThread(tm.k, kids[tm.k], tm.idx, tm.k)]
           /\ trace' = Append(trace, BeginEv(tm.idx, tm.k))
           /\ IF tm.k < Len(kids)
              THEN tm' = [tm EXCEPT !.k = @ + 1]
              ELSE tm' = [tm EXCEPT !.pc = "join", !.k = 1]
    /\ UNCHANGED <<confVars, pc, cause, started, clientVars, thermostat,
                   last_percent, reconnVars, cyc, hist, outage>>

\* _execute_parallel_block: thread.join() of child k returns
TMJoin ==
    /\ pc = "trigger"
    /\ tm.pc = "join"
    /\ ~Running(JoinTarget(tm.k))
    /\ LET kids == CurrentList[tm.idx].actions
       IN  IF tm.k < Len(kids)
           THEN tm' = [tm EXCEPT !.k = @ + 1]
           ELSE tm' = [tm EXCEPT !.pc = "list", !.idx = @ + 1]
    /\ UNCHANGED <<confVars, pc, cause, started, clientVars, thermostat,
                   last_percent, reconnVars, cyc, hist, outage, th, trace>>

\* ------------------------------------------------------------------------
\* Specification
\* ------------------------------------------------------------------------
Next ==
    \/ InitialLogin
    \/ InitialDevices
    \/ Fetch
    \/ ReconnectAttempt
    \/ Sleep
    \/ Interrupt
    \/ AtExit
    \/ TMNextItem
    \/ TMReturn
    \/ TMSpawn
    \/ TMJoin
    \/ \E t \in Threads : ExecBegin(t)
    \/ \E t \in Threads : ExecIter(t)
    \/ \E t \in Threads : ExecWake(t)

Spec == Init /\ [][Next]_vars

\* Spec with the scheduling of the program: the requests of the Device
\* Client (all made with a timeout) and the calls to time.sleep return, so
\* the loop, reconnect(), and the threads of a running trigger keep taking
\* steps.  The user interrupt is not fair.
FairSpec ==
    /\ Spec
    /\ WF_vars(InitialLogin)
    /\ WF_vars(InitialDevices)
    /\ WF_vars(Fetch)
    /\ WF_vars(ReconnectAttempt)
    /\ WF_vars(Sleep)
    /\ WF_vars(AtExit)
    /\ WF_vars(TMNextItem)
    /\ WF_vars(TMReturn)
    /\ WF_vars(TMSpawn)
    /\ WF_vars(TMJoin)
    /\ \A t \in Threads :
        WF_vars(ExecBegin(t)) /\ WF_vars(ExecIter(t)) /\ WF_vars(ExecWake(t))

\* One execution of a trigger: the state in which the loop has just called
\* execute_trigger(name) after a baseline sample, for every trigger mapping
\* of TriggerConfigs
InitExec ==
    /\ mode = "trigger"
    /\ triggers \in TriggerConfigs
    /\ pc = "trigger"
    /\ cause = "none"
    /\ started = TRUE
    /\ session_id = 1
    /\ orphaned = FALSE
    /\ logouts = 0
    /\ devices \in DeviceLists
    /\ ResolveDevice(devices) # NoDevice
    /\ thermostat = ResolveDevice(devices)
    /\ \E name \in TriggerNames :
        LET base == IF name = "on_heater_on" THEN 0 ELSE 45
            now == IF name = "on_heater_on" THEN 45 ELSE 0
        IN  /\ TriggerRuns(triggers, name)
            /\ last_percent = base
            /\ cyc = [NoCycle EXCEPT !.kind = "ok", !.percent = now,
                                     !.prevLast = base, !.fired = name]
            /\ hist = <<[prevLast |-> None, percent |-> base,
                         fired |-> "none"]>>
            /\ tm = [pc |-> "list", name |-> name, idx |-> 1, k |-> 0]
    /\ branch = "none"
    /\ attempt = 0
    /\ delays = <<>>
    /\ outage = FALSE
    /\ th = [t \in Threads |-> IdleThread]
    /\ trace = <<>>

NextExec ==
    \/ TMNextItem
    \/ TMReturn
    \/ TMSpawn
    \/ TMJoin
    \/ \E t \in Threads : ExecBegin(t)
    \/ \E t \in Threads : ExecIter(t)
    \/ \E t \in Threads : ExecWake(t)
    \/ Interrupt
    \/ AtExit

SpecExec == InitExec /\ [][NextExec]_vars

\* SpecExec with the scheduling of the threads: the caller's thread and
\* every started child thread keep being scheduled, and the calls to the
\* collaborators and time.sleep return.  The user interrupt is not fair.
FairExec ==
    /\ SpecExec
    /\ WF_vars(TMNextItem)
    /\ WF_vars(TMReturn)
    /\ WF_vars(TMSpawn)
    /\ WF_vars(TMJoin)
    /\ \A t \in Threads :
        WF_vars(ExecBegin(t)) /\ WF_vars(ExecIter(t)) /\ WF_vars(ExecWake(t))

\* ------------------------------------------------------------------------
\* Properties
\* ------------------------------------------------------------------------
FailedKinds == {"none", "error"}
EffectEvents == {"probe", "press", "run", "delay", "sleep", "wake"}
EndEvents == {"end", "raise"}

\* the configured action an entry of the trace belongs to
ItemOf(e) ==
    IF e.ch = 0 THEN CurrentList[e.idx] ELSE CurrentList[e.idx].actions[e.ch]

\* C1: in trigger mode a successful sample fires on_heater_on iff
\* last_percent is recorded, equals 0 and percent > 0, fires on_heater_off
\* iff last_percent > 0 and percent = 0, and fires nothing when last_percent
\* is None; and successful samples 0, 45, 0 from an empty baseline fire
\* nothing, then on_heater_on, then on_heater_off.
C1_TransitionFiring ==
    /\ (mode = "trigger" /\ cyc.kind = "ok") =>
        /\ cyc.fired = "on_heater_on" <=>
              (cyc.prevLast # None /\ cyc.prevLast = 0
               /\ cyc.percent # None /\ cyc.percent > 0)
        /\ cyc.fired = "on_heater_off" <=>
              (cyc.prevLast # None /\ cyc.prevLast > 0 /\ cyc.percent = 0)
        /\ cyc.prevLast = None => cyc.fired = "none"
    /\ \A i \in 1..(Len(hist) - 2) :
        (/\ hist[i].prevLast = None
         /\ hist[i].percent = 0
         /\ hist[i + 1].percent = 45
         /\ hist[i + 2].percent = 0)
        => /\ hist[i].fired = "none"
           /\ hist[i + 1].fired = "on_heater_on"
           /\ hist[i + 2].fired = "on_heater_off"

\* C2: after a poll cycle last_percent is the percent of the most recent
\* successful sample (stated here for samples whose percent is an integer),
\* whatever happened while the trigger ran, and a failed sample leaves it
\* unchanged.
C2_LastPercentTracksSample ==
    /\ (mode = "trigger" /\ pc = "sleep" /\ cyc.kind = "ok"
        /\ cyc.percent # None)
          => last_percent = cyc.percent
    /\ cyc.kind \in FailedKinds => last_percent = cyc.prevLast

\* C3: a failed sample (no response, or an API error with any code) enters
\* the reconnect procedure, fires no trigger in that cycle, and the cycle
\* ends in the sleep that precedes the next poll.
C3_FailedSampleReconnects ==
    cyc.kind \in FailedKinds =>
        /\ cyc.reconnect # "no"
        /\ cyc.fired = "none"
        /\ tm = IdleTM
        /\ trace = <<>>
        /\ last_percent = cyc.prevLast
        /\ pc \in {"reconnect", "sleep"}
        /\ pc = "sleep" <=> cyc.reconnect \in {"ok", "failed"}

\* C3 witness: each kind of failed sample has gone through reconnect and the
\* loop is about to poll again
C3_Witness ==
    /\ pc = "sleep"
    /\ cyc.kind = "error"
    /\ cyc.code = "OTHER"
    /\ cyc.reconnect = "ok"

\* C4: after a successful reconnect, whichever failure caused it, the
\* tracked device is the entry of the refreshed device list.
C4_DeviceReResolved ==
    (pc = "sleep" /\ cyc.reconnect = "ok"
     /\ ResolveDevice(devices) # NoDevice)
        => thermostat = ResolveDevice(devices)

\* C5: reconnect() makes at most max_attempts attempts, returns true at the
\* first attempt whose login and device enumeration both succeed and false
\* exactly when all max_attempts attempts failed; the delay slept after the
\* n-th failed attempt is base_delay * 2^(n-1), so the delays strictly
\* increase.
C5_ReconnectBackoff ==
    /\ attempt <= max_attempts
    /\ \A n \in 1..Len(delays) : delays[n] = base_delay * 2 ^ (n - 1)
    /\ \A n \in 1..(Len(delays) - 1) : delays[n] < delays[n + 1]
    /\ pc = "reconnect" => Len(delays) = attempt /\ attempt < max_attempts
    /\ cyc.reconnect = "ok" =>
          /\ Len(delays) = attempt - 1
          /\ attempt >= 1
          /\ session_id # None
          /\ devices # <<>>
    /\ cyc.reconnect = "failed" <=>
          (attempt = max_attempts /\ Len(delays) = max_attempts)

\* C5 witness: reconnect() gave up after max_attempts failed attempts
C5_Witness ==
    /\ pc = "sleep"
    /\ cyc.reconnect = "failed"
    /\ Len(delays) = max_attempts
    /\ delays[max_attempts] = 160

\* C6: once the monitor loop has started, the process terminates only
\* through a user interrupt.
C6_OnlyInterruptTerminates ==
    (started /\ pc \in {"exit", "terminated"}) => cause = "interrupt"

\* C7: an action with enabled = false, of any kind, makes no call when its
\* trigger executes, and no child of a disabled parallel group is executed.
C7_DisabledNoEffects ==
    \A i \in 1..Len(trace) :
        /\ trace[i].ev \in EffectEvents => ItemOf(trace[i]).enabled
        /\ trace[i].ch # 0 => CurrentList[trace[i].idx].enabled

C9_NoExceptionEscapes ==
    /\ tm.pc # "raised"
    /\ \A i \in 1..Len(trace) : trace[i].ev # "raise"

\* the children of the parallel block at position g of the current list
\* have all ended
ChildrenEnded(g) ==
    \A c \in 1..Len(CurrentList[g].actions) :
        \E i \in 1..Len(trace) :
            trace[i].idx = g /\ trace[i].ch = c /\ trace[i].ev \in EndEvents

\* C10: a parallel group is a barrier: every call made for an earlier list
\* item precedes every call made for a later one, and the Trigger Manager
\* moves past a group (to the next item, or to its return) only when every
\* child of the group has ended.
C10_ParallelBarrier ==
    tm.pc \in {"list", "exec", "spawn", "join", "returned", "raised"} =>
        /\ \A i, j \in 1..Len(trace) :
              i < j => trace[i].idx <= trace[j].idx
        /\ \A g \in 1..Len(CurrentList) :
              (IsParallelItem(CurrentList[g]) /\ tm.idx > g)
                  => ChildrenEnded(g)
        /\ tm.pc = "returned" => tm.idx = Len(CurrentList) + 1

\* C10 witness: execute_trigger has returned from the list
\* [keyboard x2, parallel[command, sleep], keyboard] with every call made
C10_Witness ==
    /\ tm.pc = "returned"
    /\ Len(CurrentList) = 3
    /\ IsParallelItem(CurrentList[2])
    /\ Len(CurrentList[2].actions) = 2
    /\ \E i, j, k \in 1..Len(trace) :
          /\ trace[i].ev = "run" /\ trace[i].ch = 1
          /\ trace[j].ev = "wake" /\ trace[j].ch = 2
          /\ trace[k].ev = "press" /\ trace[k].idx = 3

\* a call of a child of a parallel block failed: its execute() raised, or
\* its collaborator raised during the dispatch
ChildFailure(e) ==
    /\ e.ch # 0
    /\ \/ e.ev = "raise"
       \/ e.ev \in {"press", "run"} /\ e.res = "raise"

\* C11: once a child of a parallel group has failed, every child of the
\* group still ends and the Trigger Manager moves past the group to the
\* next list item (unless the user interrupts the process meanwhile).
C11_ChildFailureIsolated ==
    (tm.pc # "aborted" /\ \E i \in 1..Len(trace) : ChildFailure(trace[i]))
    ~> \/ tm.pc = "aborted"
       \/ \A i \in 1..Len(trace) :
              ChildFailure(trace[i])
                  => tm.idx > trace[i].idx /\ ChildrenEnded(trace[i].idx)

\* C11 witness: the first child of a group raised, its sibling made its
\* call and ended, and the item after the group has made its call
C11_Witness ==
    \E i, j, k, l \in 1..Len(trace) :
        /\ trace[i].ev = "raise" /\ trace[i].ch = 1
        /\ trace[j].ev = "run" /\ trace[j].res = "ok" /\ trace[j].ch = 2
        /\ trace[j].idx = trace[i].idx
        /\ i < j
        /\ trace[k].ev = "end" /\ trace[k].ch = 2
        /\ trace[l].ev = "press" /\ trace[l].idx = trace[i].idx + 1

\* C12: the children of a parallel group run concurrently: the start of a
\* child waits for nothing, a started child can always take its next step
\* whatever its siblings are doing, and the join loop begins only when
\* every child has been started.
C12_ChildrenConcurrent ==
    /\ (pc = "trigger" /\ tm.pc = "spawn") => ENABLED TMSpawn
    /\ \A c \in 1..MaxChildren :
          Running(c) => ENABLED (ExecBegin(c) \/ ExecIter(c) \/ ExecWake(c))
    /\ (pc = "trigger" /\ tm.pc = "join") =>
          \A c \in 1..Len(CurrentList[tm.idx].actions) :
              \E i \in 1..Len(trace) :
                  /\ trace[i].ev = "begin"
                  /\ trace[i].idx = tm.idx /\ trace[i].ch = c

\* C12 witness: both children of a group are in progress at once, the
\* pause child blocked in its sleep and the command child about to run
C12_Witness ==
    /\ tm.pc = "join"
    /\ th[1].pc = "loop" /\ th[1].act.action_type = "command"
    /\ th[2].pc = "sleeping"

\* C13: the percent of every successful sample, as compared and as stored
\* in last_percent, is an integer in 0..100, never None.
C13_PercentInRange ==
    /\ cyc.kind = "ok" => cyc.percent # None /\ cyc.percent \in 0..100
    /\ \A i \in 1..Len(hist) :
          hist[i].percent # None /\ hist[i].percent \in 0..100

\* C14: when the process has terminated, whatever made main() return, no
\* session established by login() is left open: session_id is None, no
\* earlier session was dropped without a logout, and at most one logout
\* was sent for the last session.
C14_NoSessionLeftOpen ==
    /\ logouts <= 1
    /\ pc = "terminated" => session_id = None /\ ~orphaned

\* C15: a transition whose trigger name is absent from the mapping makes
\* no call and raises nothing: the poll cycle ends in its sleep with
\* last_percent updated to the percent of the sample.
C15_AbsentTriggerNoOp ==
    (/\ mode = "trigger"
     /\ cyc.kind = "ok"
     /\ cyc.fired \in TriggerNames
     /\ ~triggers[cyc.fired].present)
    => /\ pc = "sleep"
       /\ ~cyc.raised
       /\ last_percent = cyc.percent
       /\ trace = <<>>
       /\ tm = IdleTM
       /\ \A t \in Threads : th[t] = IdleThread

\* C15 witness: the heater went off, on_heater_off is not configured, and
\* the cycle is in its sleep
C15_Witness ==
    /\ mode = "trigger"
    /\ pc = "sleep"
    /\ cyc.kind = "ok"
    /\ cyc.fired = "on_heater_off"
    /\ ~triggers["on_heater_off"].present
    /\ cyc.prevLast = 45
    /\ last_percent = 0

\* a step in which a fetch, a login or a device enumeration fails
FailStep ==
    \/ pc = "fetch" /\ cyc'.kind \in {"none", "error", "baderr"}
    \/ pc = "reconnect" /\ Len(delays') > Len(delays)

\* ways main() ends that are not a failure of the running loop
OrderlyExits ==
    {"init_login", "init_devices", "init_nodevice", "once", "interrupt"}

\* C16: after a failed sample the loop eventually fetches again, and if
\* from some point on no fetch, login or enumeration fails, the loop
\* processes successful samples again, unless the user interrupts it.
C16_LoopRecovers ==
    /\ (cyc.kind \in FailedKinds)
          ~> (pc = "fetch" \/ cause = "interrupt")
    /\ \/ []<><<FailStep>>_vars
       \/ []<>(cyc.kind = "ok")
       \/ <>(cause \in OrderlyExits)

\* the same property with the exit through an unhandled exception of the
\* loop excused; it holds under FairSpec
LoopRecoversUnlessFault ==
    /\ (cyc.kind \in FailedKinds)
          ~> (pc = "fetch" \/ cause = "interrupt")
    /\ \/ []<><<FailStep>>_vars
       \/ []<>(cyc.kind = "ok")
       \/ <>(cause \in OrderlyExits \cup {"fault"})

\* a call of an item of the list itself failed during its dispatch
TopFailure(e) == e.ch = 0 /\ e.ev \in {"press", "run"} /\ e.res = "raise"

\* item g of the current list has been executed to its end
ItemExecuted(g) ==
    IF IsParallelItem(CurrentList[g]) THEN ChildrenEnded(g)
    ELSE \E i, j \in 1..Len(trace) :
            /\ i < j
            /\ trace[i].ev = "begin" /\ trace[i].idx = g /\ trace[i].ch = 0
            /\ trace[j].ev \in EndEvents /\ trace[j].idx = g
            /\ trace[j].ch = 0

\* C17: when the collaborator of a list item raises during the dispatch,
\* the execute() call of the item returns normally, the Trigger Manager
\* goes on to the next item, and every later item is executed, in list
\* order, each sequential item ending before the next one begins.
C17_FailureDoesNotAbortList ==
    /\ \A i \in 1..Len(trace) :
          TopFailure(trace[i]) =>
              /\ i < Len(trace)
              /\ trace[i + 1].ev = "end"
              /\ trace[i + 1].idx = trace[i].idx /\ trace[i + 1].ch = 0
              /\ tm.idx > trace[i].idx
              /\ tm.pc # "raised"
              /\ tm.pc = "returned" =>
                    \A g \in (trace[i].idx + 1)..Len(CurrentList) :
                        ItemExecuted(g)
    /\ \A i, j \in 1..Len(trace) :
          (i < j /\ trace[j].ev = "begin" /\ trace[j].ch = 0) =>
              /\ trace[i].idx <= trace[j].idx
              /\ trace[i].idx < trace[j].idx =>
                    \E k \in 1..(j - 1) :
                        /\ trace[k].ev \in EndEvents
                        /\ trace[k].idx = trace[i].idx
                        /\ trace[k].ch = trace[i].ch

\* C17 witness: the first item of [keyboard x2, parallel[command, sleep],
\* keyboard] failed at its first press, and the list was executed to its
\* end with the later calls made
C17_Witness ==
    /\ tm.pc = "returned"
    /\ Len(CurrentList) = 3
    /\ \E i, j, k \in 1..Len(trace) :
          /\ i < j /\ j < k
          /\ TopFailure(trace[i]) /\ trace[i].idx = 1
          /\ trace[j].ev = "run" /\ trace[j].idx = 2
          /\ trace[k].ev = "press" /\ trace[k].idx = 3
          /\ trace[k].res = "ok"

\* the collaborator calls and repeat delays made for item (g, c), in order
RepeatBody(g, c) ==
    SelectSeq(trace, LAMBDA e : /\ e.idx = g /\ e.ch = c
                                /\ e.ev \in {"press", "run", "delay"})

\* calls and delays alternate, beginning and ending with a call
Alternates(w) ==
    /\ Len(w) % 2 = 1
    /\ \A p \in 1..Len(w) : (w[p].ev = "delay") <=> (p % 2 = 0)

\* entry e ends the execute() call of a keyboard or command action with
\* repeat >= 1 that is enabled and has passed its gate
EndsRepeatAction(e) ==
    /\ e.ev = "end"
    /\ ItemOf(e).mapping
    /\ ItemOf(e).enabled
    /\ ItemOf(e).action_type \in {"keyboard", "command"}
    /\ ItemOf(e).repeat >= 1
    /\ \/ ItemOf(e).condition \in {"absent", "unknown"}
       \/ /\ ItemOf(e).condition = "ping"
          /\ \E j \in 1..Len(trace) :
                /\ trace[j].ev = "probe" /\ trace[j].res = "ok"
                /\ trace[j].idx = e.idx /\ trace[j].ch = e.ch

\* C18 as stated: an enabled keyboard or command action with repeat = n
\* that passes its gate calls its collaborator exactly n times and sleeps
\* the repeat delay exactly n - 1 times, each between two consecutive calls.
C18_RepeatExact ==
    \A i \in 1..Len(trace) :
        EndsRepeatAction(trace[i]) =>
            LET w == RepeatBody(trace[i].idx, trace[i].ch)
            IN  /\ Alternates(w)
                /\ Len(w) = 2 * ItemOf(trace[i]).repeat - 1

\* C18 amended: the collaborator is called n times unless a call raises,
\* and a call that raises is the last one; in both cases the repeat delay
\* is slept once after every call but the last, so each delay lies between
\* two consecutive calls and none follows the last.
C18_RepeatUntilError ==
    \A i \in 1..Len(trace) :
        EndsRepeatAction(trace[i]) =>
            LET w == RepeatBody(trace[i].idx, trace[i].ch)
                n == ItemOf(trace[i]).repeat
            IN  /\ Alternates(w)
                /\ Len(w) <= 2 * n - 1
                /\ Len(w) = 2 * n - 1 \/ w[Len(w)].res = "raise"
                /\ \A p \in 1..(Len(w) - 1) : w[p].res # "raise"

\* C18 witness: an action with repeat = 3 ended after three calls with a
\* delay between the first and the second and between the second and the
\* third
C18_Witness ==
    \E i \in 1..Len(trace) :
        /\ EndsRepeatAction(trace[i])
        /\ ItemOf(trace[i]).repeat = 3
        /\ LET w == RepeatBody(trace[i].idx, trace[i].ch)
           IN  /\ Len(w) = 5
               /\ w[2].ev = "delay" /\ w[4].ev = "delay"
               /\ w[5].ev \in {"press", "run"} /\ w[5].res = "ok"

\* entry e ends the execute() call of an enabled keyboard, command or sleep
\* action
EndsEnabledAction(e) ==
    /\ e.ev = "end"
    /\ ItemOf(e).mapping
    /\ ItemOf(e).enabled
    /\ ItemOf(e).action_type \in {"keyboard", "command", "sleep"}

\* the result res was given by the probe made for the item of entry e
Probed(e, res) ==
    \E j \in 1..Len(trace) :
        /\ trace[j].ev = "probe" /\ trace[j].res = res
        /\ trace[j].idx = e.idx /\ trace[j].ch = e.ch

\* the item of entry e was dispatched: its collaborator or its pause was
\* called
Dispatched(e) ==
    \E j \in 1..Len(trace) :
        /\ trace[j].ev \in {"press", "run", "sleep"}
        /\ trace[j].idx = e.idx /\ trace[j].ch = e.ch

\* C19: check gives true for an absent condition and for a condition of an
\* unknown type, and for a ping condition true exactly when the probe
\* reports success; so an action without a condition or gated by an unknown
\* type is dispatched without a probe, and an action gated by a ping is
\* dispatched exactly when its probe succeeded, not when it failed or
\* raised.
C19_CheckResults ==
    /\ ConditionCheck("absent", "-") = "true"
    /\ ConditionCheck("unknown", "-") = "true"
    /\ \A r \in {"ok", "fail", "raise"} :
          ConditionCheck("ping", r) = (IF r = "ok" THEN "true" ELSE "false")
    /\ \A i \in 1..Len(trace) :
          EndsEnabledAction(trace[i]) =>
              /\ ItemOf(trace[i]).condition \in {"absent", "unknown"} =>
                    /\ Dispatched(trace[i])
                    /\ \A r \in {"ok", "fail", "raise"} :
                          ~Probed(trace[i], r)
              /\ ItemOf(trace[i]).condition = "ping" =>
                    /\ \E r \in {"ok", "fail", "raise"} :
                          Probed(trace[i], r)
                    /\ Dispatched(trace[i]) <=> Probed(trace[i], "ok")

\* C19 witness: in one trigger an action gated by a ping whose probe raised
\* ended without being dispatched, and the action after it, gated by a
\* condition of an unknown type, ran its command and ended
C19_Witness ==
    \E i, j \in 1..Len(trace) :
        /\ EndsEnabledAction(trace[i])
        /\ ItemOf(trace[i]).condition = "ping"
        /\ Probed(trace[i], "raise")
        /\ ~Dispatched(trace[i])
        /\ EndsEnabledAction(trace[j])
        /\ ItemOf(trace[j]).condition = "unknown"
        /\ ItemOf(trace[j]).action_type = "command"
        /\ Dispatched(trace[j])

\* C20: a trigger blocks the poll loop.  While a trigger executes, every
\* step leaves the sample of the cycle, the reconnect state, the session
\* and the device as they are (no fetch, no reconnect), keeps last_percent
\* until execute_trigger is left, and keeps the same trigger; and the loop
\* is at its sleep, its fetch or its reconnect only when no action of a
\* trigger is in progress.
C20_TriggerBlocksLoop ==
    [][/\ pc = "trigger" =>
            /\ pc' \in {"trigger", "sleep", "exit"}
            /\ pc' # "exit" =>
                  /\ cyc'.kind = cyc.kind /\ cyc'.percent = cyc.percent
                  /\ UNCHANGED <<reconnVars, clientVars, thermostat>>
            /\ pc' = "trigger" =>
                  /\ last_percent' = last_percent
                  /\ tm'.name = tm.name
            /\ pc' = "sleep" => tm'.pc \in {"returned", "raised"}
       /\ pc' \in {"sleep", "fetch", "reconnect"} =>
            \A t \in Threads : ~Running(t)'
       /\ pc' \in {"fetch", "reconnect"} => tm' = IdleTM
      ]_vars

\* C20 witness: on_heater_on is executing, its command child has run and
\* its pause child still sleeps, and last_percent is still the 0 of the
\* sample before the transition
C20_Witness ==
    /\ started
    /\ pc = "trigger"
    /\ tm.name = "on_heater_on"
    /\ tm.pc = "join"
    /\ th[1].pc = "done"
    /\ th[2].pc = "sleeping"
    /\ cyc.percent = 45
    /\ last_percent = 0
    /\ Len(hist) = 1

\* C21: between two consecutive fetches the loop sleeps the poll interval
\* exactly once, on every branch: a fetch is reached only from the sleep of
\* the cycle before it (or, for the first one, from the initial connect),
\* every fetch leaves the fetch position, the trigger and every reconnect
\* branch end in that sleep, and the sleep leads straight to the fetch.
C21_OneSleepPerCycle ==
    [][/\ pc' = "fetch" => pc \in {"fetch", "sleep", "init_devices"}
       /\ pc = "fetch" => pc' \in {"reconnect", "trigger", "sleep", "exit"}
       /\ pc \in {"reconnect", "trigger"} => pc' \in {pc, "sleep", "exit"}
       /\ pc = "sleep" => pc' \in {"fetch", "exit"}
      ]_vars

\* C21 witness: reconnect() succeeded after a no-response sample, the
\* device id is not in the new device list, and the cycle is in its sleep
C21_Witness ==
    /\ pc = "sleep"
    /\ cyc.kind = "none"
    /\ cyc.reconnect = "ok"
    /\ ~cyc.resolved
    /\ ResolveDevice(devices) = NoDevice

\* the recorded samples i..j all have an integer percent, and the trigger
\* block of each of the samples i..j-1 ended with last_percent assigned
\* (no exception was raised in it)
CleanRun(i, j) ==
    /\ \A k \in i..j : hist[k].percent # None /\ hist[k].percent \in 0..100
    /\ \A k \in i..(j - 1) : hist[k + 1].prevLast = hist[k].percent

\* C22: over successful samples with integer percents whose triggers do
\* not raise, with failed samples anywhere between them, two firings with
\* no firing between them are never of the same trigger.
C22_FiringsAlternate ==
    \A i, j \in 1..Len(hist) :
        (/\ i < j
         /\ hist[i].fired \in TriggerNames
         /\ hist[j].fired \in TriggerNames
         /\ \A k \in (i + 1)..(j - 1) : hist[k].fired = "none"
         /\ CleanRun(i, j))
        => hist[i].fired # hist[j].fired

\* C22 witness: on_heater_on fired, a sample without a transition and then
\* a failed sample followed, and the next successful sample fired
\* on_heater_off
C22_Witness ==
    /\ Len(hist) = 3
    /\ hist[1].fired = "on_heater_on"
    /\ hist[2].fired = "none"
    /\ hist[3].fired = "on_heater_off"
    /\ CleanRun(1, 3)
    /\ cyc.kind = "ok"
    /\ cyc.outage

\* C23: the client never holds more than one open session: login() is
\* only ever called when every session established before has been logged
\* out, so no session is overwritten while it is still held.
C23_SingleSession ==
    /\ ~orphaned
    /\ (pc = "reconnect" /\ attempt < max_attempts) => session_id = None

====
